---- MODULE Spec2Model ----
(***************************************************************************)
(* Model of the football-league end-to-end suite: the pure validators of   *)
(* helpers/validators.ts, the suite-level network observer attached in     *)
(* beforeEach, the request report of the "HTTP Request Report" test, the    *)
(* location of the match elements and the "Goal sorting" test.             *)
(***************************************************************************)
EXTENDS Integers, Sequences, FiniteSets

VARIABLES vmatch, vname, vcall, vret,
          phase, testsRun, now, networkRequests, responseOn,
          allRequests, reportOn, requestReport, reportResult, inFlight,
          openPages, createdBy, cleared,
          dom, matchElements, queried, locatedBy,
          statsRun, testResult

vars == <<vmatch, vname, vcall, vret,
          phase, testsRun, now, networkRequests, responseOn,
          allRequests, reportOn, requestReport, reportResult, inFlight,
          openPages, createdBy, cleared,
          dom, matchElements, queried, locatedBy,
          statsRun, testResult>>

valVars == <<vmatch, vname, vcall, vret>>
netVars == <<phase, testsRun, now, networkRequests, responseOn,
             allRequests, reportOn, requestReport, reportResult,
             openPages, createdBy, cleared>>
domVars == <<dom, matchElements, queried, locatedBy>>
statsVars == <<statsRun, testResult>>
pageVars == <<domVars, statsVars>>

(***************************************************************************)
(* Bounds of the model.                                                    *)
(***************************************************************************)
MaxLen == 2
MaxReq == 2
MaxReportReq == 3
MaxNow == 1
MaxTests == 2
MaxElems == 3
MaxScorers == 3
MaxGoals == 2

(***************************************************************************)
(* JavaScript values.  Every value carries its typeof tag; a string is the *)
(* sequence of its characters.                                             *)
(***************************************************************************)
Undefined == [t |-> "undefined", s |-> <<>>, n |-> 0]
Null == [t |-> "object", s |-> <<"null">>, n |-> 0]
Str(chars) == [t |-> "string", s |-> chars, n |-> 0]
Num(k) == [t |-> "number", s |-> <<>>, n |-> k]

typeof(v) == v.t

\* JavaScript truthiness (ToBoolean) of the values above.
Truthy(v) ==
    CASE v.t = "string" -> v.s # <<>>
      [] v.t = "number" -> v.n # 0
      [] OTHER -> FALSE

Whitespace == {" "}
Chars == {"a", " "}

RECURSIVE trimStart(_)
trimStart(s) ==
    IF s = <<>> THEN s
    ELSE IF Head(s) \in Whitespace THEN trimStart(Tail(s)) ELSE s

RECURSIVE trimEnd(_)
trimEnd(s) ==
    IF s = <<>> THEN s
    ELSE IF s[Len(s)] \in Whitespace THEN trimEnd(SubSeq(s, 1, Len(s) - 1)) ELSE s

\* String.prototype.trim
trim(s) == trimEnd(trimStart(s))

\* v.trim().length > 0 ; a TypeError when v is not a string.
TrimmedNonEmpty(v) ==
    IF v.t # "string" THEN "TypeError"
    ELSE IF Len(trim(v.s)) > 0 THEN "true" ELSE "false"

(***************************************************************************)
(* helpers/validators.ts                                                   *)
(***************************************************************************)
validateMatch_NoTrim(m) ==
    IF ~Truthy(m.homeTeam) THEN "false"
    ELSE IF ~Truthy(m.awayTeam) THEN "false"
    ELSE IF ~Truthy(m.date) THEN "false"
    ELSE IF typeof(m.homeTeam) # "string" THEN "false"
    ELSE IF typeof(m.awayTeam) # "string" THEN "false"
    ELSE "true"

validateMatch(m) ==
    IF ~Truthy(m.homeTeam) THEN "false"
    ELSE IF ~Truthy(m.awayTeam) THEN "false"
    ELSE IF ~Truthy(m.date) THEN "false"
    ELSE IF typeof(m.homeTeam) # "string" THEN "false"
    ELSE IF typeof(m.awayTeam) # "string" THEN "false"
    ELSE IF TrimmedNonEmpty(m.homeTeam) # "true" THEN TrimmedNonEmpty(m.homeTeam)
    ELSE TrimmedNonEmpty(m.awayTeam)

isPlayedMatch_Either(m) ==
    IF (m.homeScore # Undefined /\ typeof(m.homeScore) = "number")
       \/ (m.awayScore # Undefined /\ typeof(m.awayScore) = "number")
    THEN "true" ELSE "false"

isPlayedMatch(m) ==
    IF m.homeScore = Undefined THEN "false"
    ELSE IF m.awayScore = Undefined THEN "false"
    ELSE IF typeof(m.homeScore) # "number" THEN "false"
    ELSE IF typeof(m.awayScore) # "number" THEN "false"
    ELSE "true"

isUpcomingMatch_NoTrim(m) ==
    IF isPlayedMatch(m) = "true" THEN "false"
    ELSE IF m.time = Undefined THEN "false"
    ELSE IF m.time.t = "string" /\ Len(m.time.s) > 0 THEN "true" ELSE "false"

isUpcomingMatch(m) ==
    IF isPlayedMatch(m) = "true" THEN "false"
    ELSE IF m.time = Undefined THEN "false"
    ELSE TrimmedNonEmpty(m.time)

validateTeamName_NoTrim(teamName) ==
    IF teamName = Null THEN "false"
    ELSE IF teamName = Undefined THEN "false"
    ELSE IF typeof(teamName) # "string" THEN "false"
    ELSE IF Len(teamName.s) > 0 THEN "true" ELSE "false"

validateTeamName(teamName) ==
    IF teamName = Null THEN "false"
    ELSE IF teamName = Undefined THEN "false"
    ELSE IF typeof(teamName) # "string" THEN "false"
    ELSE TrimmedNonEmpty(teamName)

(***************************************************************************)
(* Inputs of the validators: the Match records of types/match.types.ts     *)
(* (optional fields absent = undefined) and the team-name arguments.       *)
(***************************************************************************)
RECURSIVE StringsUpTo(_)
StringsUpTo(k) ==
    IF k = 0 THEN {<<>>}
    ELSE LET shorter == StringsUpTo(k - 1)
         IN  shorter \cup {Append(s, c) : s \in shorter, c \in Chars}

Strings == {Str(s) : s \in StringsUpTo(MaxLen)}
Scores == {Undefined, Num(0), Num(3)}
Dates == {Undefined, Str(<<>>), Str(<<"d">>)}
Times == {Undefined} \cup Strings

Match == [homeTeam : Strings, awayTeam : Strings,
          homeScore : Scores, awayScore : Scores,
          date : Dates, time : Times]

TeamNames == {Null, Undefined} \cup Strings

DefaultMatch == [homeTeam |-> Str(<<"a">>), awayTeam |-> Str(<<"a">>),
                 homeScore |-> Undefined, awayScore |-> Undefined,
                 date |-> Str(<<"d">>), time |-> Undefined]

ValInit ==
    /\ \/ vmatch \in Match /\ vname = Undefined
       \/ vmatch = DefaultMatch /\ vname \in TeamNames
    /\ vcall = "none"
    /\ vret = "none"

CallValidateMatch ==
    /\ vcall' = "validateMatch"
    /\ vret' = validateMatch(vmatch)
    /\ UNCHANGED <<vmatch, vname>>

CallIsPlayedMatch ==
    /\ vcall' = "isPlayedMatch"
    /\ vret' = isPlayedMatch(vmatch)
    /\ UNCHANGED <<vmatch, vname>>

CallIsUpcomingMatch ==
    /\ vcall' = "isUpcomingMatch"
    /\ vret' = isUpcomingMatch(vmatch)
    /\ UNCHANGED <<vmatch, vname>>

CallValidateTeamName ==
    /\ vcall' = "validateTeamName"
    /\ vret' = validateTeamName(vname)
    /\ UNCHANGED <<vmatch, vname>>

(***************************************************************************)
(* NetworkRequest records (types/match.types.ts).  The optional fields     *)
(* responseTime, cached and status are undefined until a response listener *)
(* assigns them.                                                           *)
(***************************************************************************)
Bool(b) == [t |-> "boolean", s |-> <<>>, n |-> IF b THEN 1 ELSE 0]

NewRequest(url, method, timestamp) ==
    [url |-> url, method |-> method, timestamp |-> timestamp,
     responseTime |-> Undefined, cached |-> Undefined, status |-> Undefined]

\* a || b
Or(a, b) == IF Truthy(a) THEN a ELSE b

\* Array.prototype.find: the index of the first element of the candidates,
\* 0 when there is none.
find(candidates) ==
    IF candidates = {} THEN 0
    ELSE CHOOSE i \in candidates : \A j \in candidates : i <= j

(***************************************************************************)
(* URLs are character sequences.                                           *)
(***************************************************************************)
includes(str, sub) ==
    \E k \in 0..(Len(str) - Len(sub)) : SubSeq(str, k + 1, k + Len(sub)) = sub

UrlApi == <<"h", ":", "/", "/", "a", "/", "a", "p", "i">>
UrlScript == <<"h", ":", "/", "/", "a", "/", "x", ".", "j", "s">>
UrlLive == <<"h", ":", "/", "/", "b", "/", "l", "i", "v", "e">>
UrlLiveScript == <<"h", ":", "/", "/", "b", "/", "l", "i", "v", "e", ".", "j", "s">>
UrlPlain == <<"h", ":", "/", "/", "a", "/", "x">>
UrlData == <<"d", "a", "t", "a", ":", "x">>
\* a string new URL cannot parse: no scheme
UrlRelative == <<"/", "l", "i", "v", "e">>

NetUrls == {UrlApi, UrlPlain}
ReportUrls == {UrlApi, UrlScript, UrlLive, UrlLiveScript, UrlPlain, UrlData}
DomainUrls == {UrlApi, UrlLive, UrlData, UrlRelative}
Methods == {"GET", "POST"}
Statuses == {200, 404}
HeaderValues == {Undefined, Str(<<>>), Str(<<"x">>)}
Headers == [cacheControl : HeaderValues, etag : HeaderValues]
NoHeaders == {[cacheControl |-> Undefined, etag |-> Undefined]}
LiveHeaders == NoHeaders \cup {[cacheControl |-> Str(<<"x">>), etag |-> Undefined]}

(***************************************************************************)
(* Suite-level observer (beforeEach).                                      *)
(***************************************************************************)
\* page.on("request") of beforeEach
SuiteOnRequest(reqs, url, method, t) == Append(reqs, NewRequest(url, method, t))

SuiteOnResponse_Latest(reqs, url, status, headers, t) ==
    LET open == {k \in 1..Len(reqs) :
                    reqs[k].url = url /\ ~Truthy(reqs[k].responseTime)}
        i == IF open = {} THEN 0
             ELSE CHOOSE k \in open : \A j \in open : j <= k
    IN  IF i = 0 THEN reqs
        ELSE [reqs EXCEPT ![i] =
                [url |-> reqs[i].url, method |-> reqs[i].method,
                 timestamp |-> reqs[i].timestamp,
                 responseTime |-> Num(t - reqs[i].timestamp),
                 status |-> Num(status),
                 cached |-> Bool(Truthy(Or(headers.cacheControl, headers.etag)))]]

\* page.on("response") of beforeEach
SuiteOnResponse(reqs, url, status, headers, t) ==
    LET i == find({k \in 1..Len(reqs) :
                      reqs[k].url = url /\ ~Truthy(reqs[k].responseTime)})
    IN  IF i = 0 THEN reqs
        ELSE [reqs EXCEPT ![i] =
                [url |-> reqs[i].url, method |-> reqs[i].method,
                 timestamp |-> reqs[i].timestamp,
                 responseTime |-> Num(t - reqs[i].timestamp),
                 status |-> Num(status),
                 cached |-> Bool(Truthy(Or(headers.cacheControl, headers.etag)))]]

(***************************************************************************)
(* Observer of the "HTTP Request Report" test.                             *)
(***************************************************************************)
\* page.on("request") of the report test
ReportOnRequest(reqs, url, method, t) == Append(reqs, NewRequest(url, method, t))

\* page.on("response") of the report test
ReportOnResponse(reqs, url, status, t) ==
    LET i == find({k \in 1..Len(reqs) :
                      reqs[k].url = url /\ ~Truthy(reqs[k].status)})
    IN  IF i = 0 THEN reqs
        ELSE [reqs EXCEPT ![i] =
                [url |-> reqs[i].url, method |-> reqs[i].method,
                 timestamp |-> reqs[i].timestamp,
                 responseTime |-> Num(t - reqs[i].timestamp),
                 status |-> Num(status),
                 cached |-> reqs[i].cached]]

(***************************************************************************)
(* Report aggregation of the "HTTP Request Report" test.                   *)
(***************************************************************************)
Alpha == {"a", "b", "c", "d", "e", "f", "g", "h", "i", "j", "k", "l", "m",
          "n", "o", "p", "q", "r", "s", "t", "u", "v", "w", "x", "y", "z"}
SchemeChars == Alpha \cup {"+", "-", "."}

\* new URL(url).hostname for URLs of a non-special scheme without userinfo
\* or port: [ok |-> FALSE] stands for the TypeError new URL throws for a
\* string that does not start with a scheme (a relative reference).
hostname(url) ==
    LET colons == {k \in 1..Len(url) : url[k] = ":"}
        c == find(colons)
        stops == {k \in (c + 3)..Len(url) : url[k] \in {"/", "?", "#"}}
        stop == IF stops = {} THEN Len(url) + 1 ELSE find(stops)
    IN  IF c <= 1 \/ url[1] \notin Alpha
           \/ (\E k \in 1..(c - 1) : url[k] \notin SchemeChars)
        THEN [ok |-> FALSE, hostname |-> <<>>]
        ELSE IF Len(url) >= c + 2 /\ url[c + 1] = "/" /\ url[c + 2] = "/"
        THEN [ok |-> TRUE, hostname |-> SubSeq(url, c + 3, stop - 1)]
        ELSE [ok |-> TRUE, hostname |-> <<>>]

\* map[key] = (map[key] || 0) + 1 on an object used as a counter map
increment(map, key) ==
    [k \in DOMAIN map \cup {key} |->
        IF k = key THEN (IF key \in DOMAIN map THEN map[key] ELSE 0) + 1
        ELSE map[k]]

countByMethod_OffByOne(map, req) ==
    [k \in DOMAIN map \cup {req.method} |->
        IF k = req.method
        THEN (IF req.method \in DOMAIN map THEN map[req.method] ELSE 1) + 1
        ELSE map[k]]

countByMethod(map, req) == increment(map, req.method)

countByDomain(map, req) ==
    LET parsed == hostname(req.url)
    IN  IF parsed.ok THEN increment(map, parsed.hostname) ELSE map

requestType_DataBeforeAssets(url) ==
    IF includes(url, <<"a", "p", "i">>) \/ includes(url, <<"d", "a", "t", "a">>)
    THEN "api"
    ELSE IF includes(url, <<"m", "a", "t", "c", "h">>)
            \/ includes(url, <<"l", "i", "v", "e">>)
    THEN "data"
    ELSE IF \/ includes(url, <<".", "j", "s">>)
            \/ includes(url, <<".", "c", "s", "s">>)
            \/ includes(url, <<".", "p", "n", "g">>)
            \/ includes(url, <<".", "j", "p", "g">>)
    THEN "assets"
    ELSE "other"

\* the if / else-if chain of "Count by type"
requestType(url) ==
    IF includes(url, <<"a", "p", "i">>) \/ includes(url, <<"d", "a", "t", "a">>)
    THEN "api"
    ELSE IF \/ includes(url, <<".", "j", "s">>)
            \/ includes(url, <<".", "c", "s", "s">>)
            \/ includes(url, <<".", "p", "n", "g">>)
            \/ includes(url, <<".", "j", "p", "g">>)
    THEN "assets"
    ELSE IF includes(url, <<"m", "a", "t", "c", "h">>)
            \/ includes(url, <<"l", "i", "v", "e">>)
    THEN "data"
    ELSE "other"

countByType(types, req) ==
    [types EXCEPT ![requestType(req.url)] = @ + 1]

countByStatus_Always(map, req) == increment(map, req.status.n)

countByStatus(map, req) ==
    IF Truthy(req.status) THEN increment(map, req.status.n) ELSE map

EmptyMap == [k \in {} |-> 0]

NoReport ==
    [totalRequests |-> 0,
     requestsByMethod |-> EmptyMap,
     requestsByDomain |-> EmptyMap,
     requestsByType |-> [api |-> 0, data |-> 0, assets |-> 0, other |-> 0],
     statusCodes |-> EmptyMap]

\* the body of allRequests.forEach for one request
countRequest(report, req) ==
    [totalRequests |-> report.totalRequests,
     requestsByMethod |-> countByMethod(report.requestsByMethod, req),
     requestsByDomain |-> countByDomain(report.requestsByDomain, req),
     requestsByType |-> countByType(report.requestsByType, req),
     statusCodes |-> countByStatus(report.statusCodes, req)]

RECURSIVE forEach_NoCatch(_, _, _)
forEach_NoCatch(reqs, k, report) ==
    IF k > Len(reqs) THEN report
    ELSE IF ~hostname(reqs[k].url).ok
    THEN [report EXCEPT !.requestsByMethod = countByMethod(@, reqs[k])]
    ELSE forEach_NoCatch(reqs, k + 1, countRequest(report, reqs[k]))

RECURSIVE forEach(_, _, _)
forEach(reqs, k, report) ==
    IF k > Len(reqs) THEN report
    ELSE forEach(reqs, k + 1, countRequest(report, reqs[k]))

buildReport(reqs) ==
    forEach(reqs, 1, [NoReport EXCEPT !.totalRequests = Len(reqs)])

(***************************************************************************)
(* Locating the match elements.  An element carries its tag, its class     *)
(* attribute (one class name) and whether it has a data-match attribute;   *)
(* the document is the sequence of its elements in document order.  A      *)
(* selector is the set of the compound selectors of its comma list.        *)
(***************************************************************************)
Element(tag, class, dataMatch) ==
    [tag |-> tag, class |-> class, dataMatch |-> dataMatch]

ClassMatch == <<"m", "a", "t", "c", "h">>
ClassMatchUpper == <<"M", "a", "t", "c", "h">>
ClassMatchItem == <<"m", "a", "t", "c", "h", "-", "i", "t", "e", "m">>
ClassOther == <<"r", "o", "w">>

Elements ==
    {Element("div", ClassMatch, FALSE),
     Element("div", ClassMatchUpper, FALSE),
     Element("span", ClassOther, TRUE),
     Element("tr", ClassMatchItem, FALSE),
     Element("p", ClassOther, FALSE)}

Documents == UNION {[1..n -> Elements] : n \in 0..MaxElems}

\* tag "*" is any tag, class <<>> any class; has is the [class*="..."] part
\* and data the [data-match] part
Compound(tag, class, has, data) ==
    [tag |-> tag, class |-> class, has |-> has, data |-> data]

matches(selector, el) ==
    \E c \in selector :
        /\ c.tag = "*" \/ el.tag = c.tag
        /\ c.class = <<>> \/ el.class = c.class
        /\ includes(el.class, c.has)
        /\ c.data => el.dataMatch

querySelectorAll(doc, selector) ==
    SelectSeq(doc, LAMBDA el : matches(selector, el))

\* SELECTORS.matchItem: '.match-item, .match, [class*="match"], [data-match]'
matchItem ==
    {Compound("*", ClassMatchItem, <<>>, FALSE),
     Compound("*", ClassMatch, <<>>, FALSE),
     Compound("*", <<>>, ClassMatch, FALSE),
     Compound("*", <<>>, <<>>, TRUE)}

alternatives ==
    << {Compound("div", <<>>, ClassMatch, FALSE)},
       {Compound("div", <<>>, ClassMatchUpper, FALSE)},
       {Compound("*", <<>>, <<>>, TRUE)},
       {Compound("li", <<>>, ClassMatch, FALSE)},
       {Compound("tr", <<>>, ClassMatch, FALSE)} >>

Located(elements, selectors) == [elements |-> elements, queried |-> selectors]

\* one pass of the loop: matchElements = the elements of alternatives[k]
tryAlternative(doc, k, located) ==
    Located(querySelectorAll(doc, alternatives[k]),
            Append(located.queried, alternatives[k]))

RECURSIVE tryAlternatives_NoBreak(_, _, _)
tryAlternatives_NoBreak(doc, k, located) ==
    IF k > Len(alternatives) THEN located
    ELSE tryAlternatives_NoBreak(doc, k + 1, tryAlternative(doc, k, located))

\* for (const alt of alternatives) { matchElements = ...; if (length > 0) break }
\* inside page.evaluate: the whole loop sees one document
RECURSIVE tryAlternatives(_, _, _)
tryAlternatives(doc, k, located) ==
    IF k > Len(alternatives) THEN located
    ELSE LET next == tryAlternative(doc, k, located)
         IN  IF Len(next.elements) > 0 THEN next
             ELSE tryAlternatives(doc, k + 1, next)

locateMatchElements(doc) ==
    LET first == Located(querySelectorAll(doc, matchItem), <<matchItem>>)
    IN  IF Len(first.elements) = 0 THEN tryAlternatives(doc, 1, first)
        ELSE first

(***************************************************************************)
(* The "Goal sorting" test.  A run is what the pages give the test: whether *)
(* the base page loads, how many match links it has, whether the stats     *)
(* page loads, and the goals of the goal-scorer entries in page order.  A  *)
(* block either completes or throws.                                       *)
(***************************************************************************)
GoalLists == {<<>>} \cup UNION {[1..n -> 0..MaxGoals] : n \in 2..MaxScorers}

StatsRuns ==
    [baseLoads : BOOLEAN, matchLinks : 0..3, statsLoads : BOOLEAN,
     goalScorers : GoalLists]

NoStatsRun ==
    [baseLoads |-> FALSE, matchLinks |-> 0, statsLoads |-> FALSE,
     goalScorers |-> <<>>]

\* the loop over i = 0 .. length - 2 that clears isSorted and breaks
RECURSIVE isSortedFrom(_, _)
isSortedFrom(goals, i) ==
    IF i > Len(goals) - 1 THEN TRUE
    ELSE IF goals[i] < goals[i + 1] THEN FALSE
    ELSE isSortedFrom(goals, i + 1)

isSorted(goals) == isSortedFrom(goals, 1)

\* expect(isSorted).toBe(true) throws when isSorted is false
sortingBlock(goals) ==
    IF Len(goals) > 1
    THEN IF isSorted(goals) THEN "completed" ELSE "thrown"
    ELSE "completed"

\* the inner try block: page.goto(statsUrl) and the sorting block
statsBlock(run) ==
    IF ~run.statsLoads THEN "thrown" ELSE sortingBlock(run.goalScorers)

\* a catch block that only logs: the try statement completes
catch(outcome) == IF outcome = "thrown" THEN "completed" ELSE outcome

\* the outer try statement of the test
testBody(run) ==
    catch(IF ~run.baseLoads THEN "thrown"
          ELSE IF run.matchLinks > 0 THEN catch(statsBlock(run))
          ELSE "completed")

\* the test fails when its body throws
goalSortingTest(run) ==
    IF testBody(run) = "thrown" THEN "failed" ELSE "passed"

(***************************************************************************)
(* The suite as a state machine.                                           *)
(***************************************************************************)
NetIdle ==
    /\ phase = "idle"
    /\ testsRun = 0
    /\ now = 0
    /\ networkRequests = <<>>
    /\ responseOn = FALSE
    /\ allRequests = <<>>
    /\ reportOn = FALSE
    /\ requestReport = NoReport
    /\ reportResult = "none"
    /\ inFlight = {}
    /\ openPages = {}
    /\ createdBy = <<>>
    /\ cleared = 0

DomIdle ==
    /\ dom = <<>>
    /\ matchElements = <<>>
    /\ queried = <<>>
    /\ locatedBy = "none"

StatsIdle ==
    /\ statsRun = NoStatsRun
    /\ testResult = "none"

PageIdle == DomIdle /\ StatsIdle

ValIdle ==
    /\ vmatch = DefaultMatch
    /\ vname = Undefined
    /\ vcall = "none"
    /\ vret = "none"

BeforeEach_NoClear ==
    /\ phase = "idle"
    /\ testsRun < MaxTests
    /\ phase' = "test"
    /\ testsRun' = testsRun + 1
    /\ responseOn' = TRUE
    /\ allRequests' = <<>>
    /\ reportOn' = FALSE
    /\ requestReport' = NoReport
    /\ reportResult' = "none"
    /\ openPages' = openPages \cup {testsRun + 1}
    /\ cleared' = 0
    /\ UNCHANGED <<now, networkRequests, createdBy>>

\* beforeEach: a new page, the shared array emptied, both listeners attached.
\* Pages are numbered by the test they are opened for; createdBy[i] is the
\* page whose listener pushed networkRequests[i], and cleared is the number
\* of records that networkRequests.length = 0 dropped.
BeforeEach ==
    /\ phase = "idle"
    /\ testsRun < MaxTests
    /\ phase' = "test"
    /\ testsRun' = testsRun + 1
    /\ networkRequests' = <<>>
    /\ responseOn' = TRUE
    /\ allRequests' = <<>>
    /\ reportOn' = FALSE
    /\ requestReport' = NoReport
    /\ reportResult' = "none"
    /\ openPages' = openPages \cup {testsRun + 1}
    /\ createdBy' = <<>>
    /\ cleared' = Len(networkRequests)
    /\ UNCHANGED now

\* afterEach: page.close() ends, and the listeners of that page with it
AfterEach ==
    /\ phase \in {"test", "reported"}
    /\ phase' = "idle"
    /\ responseOn' = FALSE
    /\ reportOn' = FALSE
    /\ openPages' = openPages \ {testsRun}
    /\ UNCHANGED <<testsRun, now, networkRequests, allRequests, requestReport,
                   reportResult, createdBy, cleared>>

\* Date.now() advances
Tick ==
    /\ now < MaxNow
    /\ now' = now + 1
    /\ UNCHANGED <<phase, testsRun, networkRequests, responseOn,
                   allRequests, reportOn, requestReport,
                   reportResult,
                   openPages, createdBy, cleared>>

\* the "request" event of an open page: the beforeEach listener of that page
\* pushes onto the shared array, and the report listener, which is on the
\* page of the running test, onto allRequests
RequestEvent(url, method) ==
    /\ \E p \in openPages :
        /\ networkRequests' = SuiteOnRequest(networkRequests, url, method, now)
        /\ createdBy' = Append(createdBy, p)
        /\ allRequests' = IF p = testsRun /\ reportOn
                          THEN ReportOnRequest(allRequests, url, method, now)
                          ELSE allRequests
    /\ UNCHANGED <<phase, testsRun, now, responseOn, reportOn, requestReport,
                   reportResult, openPages, cleared>>

\* the "response" event of an open page.  responseOn and reportOn tell which
\* response listeners the page of the running test has; another page that is
\* still open has the listener beforeEach gave it
ResponseEvent(url, status, headers) ==
    /\ \E p \in openPages :
        /\ networkRequests' = IF p = testsRun => responseOn
                              THEN SuiteOnResponse(networkRequests, url, status, headers, now)
                              ELSE networkRequests
        /\ allRequests' = IF p = testsRun /\ reportOn
                          THEN ReportOnResponse(allRequests, url, status, now)
                          ELSE allRequests
    /\ UNCHANGED <<phase, testsRun, now, responseOn, reportOn, requestReport,
                   reportResult, openPages, createdBy, cleared>>

\* page.removeAllListeners("response") of the caching test
RemoveResponseListeners ==
    /\ phase = "test"
    /\ responseOn
    /\ ~reportOn
    /\ responseOn' = FALSE
    /\ UNCHANGED <<phase, testsRun, now, networkRequests,
                   allRequests, reportOn, requestReport,
                   reportResult,
                   openPages, createdBy, cleared>>

\* the report test creates allRequests and attaches its own listeners
\* before it navigates
AttachReportListeners ==
    /\ phase = "test"
    /\ ~reportOn
    /\ responseOn
    /\ networkRequests = <<>>
    /\ allRequests' = <<>>
    /\ reportOn' = TRUE
    /\ UNCHANGED <<phase, testsRun, now, networkRequests, responseOn,
                   requestReport,
                   reportResult,
                   openPages, createdBy, cleared>>

\* toBeGreaterThan(0): the expectation throws when nothing was recorded, and
\* the catch block rethrows
expectRequests(report) ==
    IF report.totalRequests > 0 THEN "passed" ELSE "failed"

\* "Generate report": requestReport is built from allRequests as they are
\* when the test body gets there, and the test ends on its expectation; the
\* listeners stay attached until afterEach has closed the page
GenerateReport ==
    /\ phase = "test"
    /\ reportOn
    /\ requestReport' = buildReport(allRequests)
    /\ reportResult' = expectRequests(buildReport(allRequests))
    /\ phase' = "reported"
    /\ UNCHANGED <<testsRun, now, networkRequests, responseOn,
                   allRequests, reportOn, openPages, createdBy, cleared>>

Init == ValIdle /\ PageIdle /\ NetIdle

Next ==
    \/ BeforeEach /\ UNCHANGED <<valVars, pageVars, inFlight>>
    \/ AfterEach /\ UNCHANGED <<valVars, pageVars, inFlight>>
    \/ Tick /\ UNCHANGED <<valVars, pageVars, inFlight>>
    \/ RemoveResponseListeners /\ UNCHANGED <<valVars, pageVars, inFlight>>
    \/ \E url \in NetUrls, method \in {"GET"} :
            /\ Len(networkRequests) < MaxReq
            /\ RequestEvent(url, method)
            /\ UNCHANGED <<valVars, pageVars, inFlight>>
    \/ \E url \in NetUrls, status \in Statuses, headers \in Headers :
            ResponseEvent(url, status, headers) /\ UNCHANGED <<valVars, pageVars, inFlight>>

Spec == Init /\ [][Next]_vars

\* The lifecycle of the suite over several tests: the same steps with one
\* URL, which is all that the sharing of the array between tests depends on.
LifecycleNext ==
    \/ BeforeEach /\ UNCHANGED <<valVars, pageVars, inFlight>>
    \/ AfterEach /\ UNCHANGED <<valVars, pageVars, inFlight>>
    \/ Tick /\ UNCHANGED <<valVars, pageVars, inFlight>>
    \/ RemoveResponseListeners /\ UNCHANGED <<valVars, pageVars, inFlight>>
    \/ \E method \in {"GET"} :
            /\ Len(networkRequests) < MaxReq
            /\ RequestEvent(UrlApi, method)
            /\ UNCHANGED <<valVars, pageVars, inFlight>>
    \/ \E status \in Statuses, headers \in LiveHeaders :
            ResponseEvent(UrlApi, status, headers)
            /\ UNCHANGED <<valVars, pageVars, inFlight>>

SpecLifecycle == Init /\ [][LifecycleNext]_vars

\* The report test alone, over the URLs and methods the report classifies.
\* The report reads url, method and status only: the clock stands still.
ReportInit ==
    /\ ValIdle
    /\ PageIdle
    /\ inFlight = {}
    /\ phase = "test"
    /\ testsRun = 1
    /\ now = 0
    /\ networkRequests = <<>>
    /\ responseOn = TRUE
    /\ allRequests = <<>>
    /\ reportOn = FALSE
    /\ requestReport = NoReport
    /\ reportResult = "none"
    /\ openPages = {1}
    /\ createdBy = <<>>
    /\ cleared = 0

ReportNext(urls, methods, statuses) ==
    \/ AttachReportListeners /\ UNCHANGED <<valVars, pageVars, inFlight>>
    \/ \E url \in urls, method \in methods :
            /\ reportOn
            /\ Len(allRequests) < MaxReportReq
            /\ RequestEvent(url, method)
            /\ UNCHANGED <<valVars, pageVars, inFlight>>
    \/ \E url \in urls, status \in statuses, headers \in NoHeaders :
            /\ reportOn
            /\ ResponseEvent(url, status, headers)
            /\ UNCHANGED <<valVars, pageVars, inFlight>>
    \/ GenerateReport /\ UNCHANGED <<valVars, pageVars, inFlight>>

\* few URLs, every method and status
SpecReport == ReportInit /\ [][ReportNext(NetUrls, Methods, Statuses)]_vars

\* every URL, one method and status
SpecReportTypes == ReportInit /\ [][ReportNext(ReportUrls, {"GET"}, {200})]_vars

\* parsable and unparsable URLs, every method
SpecReportDomains ==
    ReportInit /\ [][ReportNext(DomainUrls, Methods, {200})]_vars

\* The suite with the page's traffic: every response answers a request of
\* the page that is still in flight.  inFlight holds the positions in
\* networkRequests of the requests whose response has not arrived.
LiveRequest(url, method) ==
    /\ Len(networkRequests) < MaxReq
    /\ RequestEvent(url, method)
    /\ inFlight' = inFlight \cup {Len(networkRequests) + 1}

LiveResponse(j, status, headers) ==
    /\ j \in inFlight
    /\ ResponseEvent(networkRequests[j].url, status, headers)
    /\ inFlight' = inFlight \ {j}

LiveNext ==
    \/ BeforeEach /\ inFlight' = {} /\ UNCHANGED <<valVars, pageVars>>
    \/ AfterEach /\ inFlight' = {} /\ UNCHANGED <<valVars, pageVars>>
    \/ Tick /\ UNCHANGED <<valVars, pageVars, inFlight>>
    \/ RemoveResponseListeners /\ UNCHANGED <<valVars, pageVars, inFlight>>
    \/ \E url \in NetUrls, method \in {"GET"} :
            LiveRequest(url, method) /\ UNCHANGED <<valVars, pageVars>>
    \/ \E j \in 1..MaxReq, status \in Statuses, headers \in LiveHeaders :
            LiveResponse(j, status, headers) /\ UNCHANGED <<valVars, pageVars>>

SpecLive == Init /\ [][LiveNext]_vars

ValNext ==
    \/ CallValidateMatch /\ UNCHANGED <<netVars, pageVars, inFlight>>
    \/ CallIsPlayedMatch /\ UNCHANGED <<netVars, pageVars, inFlight>>
    \/ CallIsUpcomingMatch /\ UNCHANGED <<netVars, pageVars, inFlight>>
    \/ CallValidateTeamName /\ UNCHANGED <<netVars, pageVars, inFlight>>

ValSpecInit == ValInit /\ PageIdle /\ NetIdle

SpecVal == ValSpecInit /\ [][ValNext]_vars

\* The location of the match elements, over every document.
DomInit ==
    /\ dom \in Documents
    /\ matchElements = <<>>
    /\ queried = <<>>
    /\ locatedBy = "none"
    /\ ValIdle
    /\ StatsIdle
    /\ NetIdle

\* The "list is visible" test awaits page.$$ once per selector, and the page
\* may change while it waits.  locatedBy = "list" while the loop over the
\* alternatives goes on; the next alternative is the one after those consulted.
\* let matchItems = await page.$$(SELECTORS.matchItem)
ListQueryPrimary ==
    /\ locatedBy = "none"
    /\ matchElements' = querySelectorAll(dom, matchItem)
    /\ queried' = <<matchItem>>
    /\ locatedBy' = IF Len(querySelectorAll(dom, matchItem)) = 0
                    THEN "list" ELSE "listDone"
    /\ UNCHANGED dom

\* matchItems = await page.$$(selector); if (matchItems.length > 0) break
ListQueryAlternative ==
    /\ locatedBy = "list"
    /\ LET k == Len(queried)
           next == tryAlternative(dom, k, Located(matchElements, queried))
       IN  /\ matchElements' = next.elements
           /\ queried' = next.queried
           /\ locatedBy' = IF Len(next.elements) > 0 \/ k = Len(alternatives)
                           THEN "listDone" ELSE "list"
    /\ UNCHANGED dom

\* the live page changes between two awaited queries
PageChanges ==
    /\ locatedBy = "list"
    /\ dom' \in Documents \ {dom}
    /\ UNCHANGED <<matchElements, queried, locatedBy>>

\* document.querySelectorAll with the fallback selectors in the
\* "correct structure" test, in one page.evaluate
LocateInStructureTest ==
    /\ locatedBy = "none"
    /\ matchElements' = locateMatchElements(dom).elements
    /\ queried' = locateMatchElements(dom).queried
    /\ locatedBy' = "structure"
    /\ UNCHANGED dom

DomNext ==
    \/ ListQueryPrimary /\ UNCHANGED <<valVars, netVars, statsVars, inFlight>>
    \/ ListQueryAlternative /\ UNCHANGED <<valVars, netVars, statsVars, inFlight>>
    \/ PageChanges /\ UNCHANGED <<valVars, netVars, statsVars, inFlight>>
    \/ LocateInStructureTest /\ UNCHANGED <<valVars, netVars, statsVars, inFlight>>

SpecDom == DomInit /\ [][DomNext]_vars

\* The "Goal sorting" test, over every run.
StatsInit ==
    /\ statsRun \in StatsRuns
    /\ testResult = "none"
    /\ ValIdle
    /\ DomIdle
    /\ NetIdle

RunGoalSortingTest ==
    /\ testResult = "none"
    /\ testResult' = goalSortingTest(statsRun)
    /\ UNCHANGED statsRun

StatsNext ==
    RunGoalSortingTest /\ UNCHANGED <<valVars, netVars, domVars, inFlight>>

SpecStats == StatsInit /\ [][StatsNext]_vars

(***************************************************************************)
(* Properties of the validators (checked under SpecVal).                   *)
(***************************************************************************)
IsNumber(v) == v.t = "number"
IsAbsent(v) == v.t = "undefined"
IsBlank(chars) == \A i \in 1..Len(chars) : chars[i] = " "
NonEmptyString(v) == v.t = "string" /\ Len(v.s) > 0
NonBlankString(v) == v.t = "string" /\ ~IsBlank(v.s)

\* C1: isPlayedMatch returns true when both homeScore and awayScore are
\* numbers, and false when either of the two scores is absent.
C1_IsPlayed ==
    vcall = "isPlayedMatch" =>
        /\ (IsNumber(vmatch.homeScore) /\ IsNumber(vmatch.awayScore)) => vret = "true"
        /\ (IsAbsent(vmatch.homeScore) \/ IsAbsent(vmatch.awayScore)) => vret = "false"

C1_Witness ==
    /\ vcall = "isPlayedMatch"
    /\ IsNumber(vmatch.homeScore)
    /\ IsAbsent(vmatch.awayScore)
    /\ vret = "false"

\* C2 as stated: isUpcomingMatch returns true exactly when the record is not
\* played and its time is a non-empty string.
C2_AsStated ==
    vcall = "isUpcomingMatch" =>
        (vret = "true" <=>
            (isPlayedMatch(vmatch) = "false" /\ NonEmptyString(vmatch.time)))

\* C2 amended: isUpcomingMatch returns true exactly when the record is not
\* played and its time is a string that is non-empty after trimming
\* whitespace; played, time absent, time empty and time whitespace-only all
\* give false.
C2_IsUpcoming ==
    vcall = "isUpcomingMatch" =>
        /\ vret \in {"true", "false"}
        /\ vret = "true" <=>
            (isPlayedMatch(vmatch) = "false" /\ NonBlankString(vmatch.time))

C2_Witness ==
    /\ vcall = "isUpcomingMatch"
    /\ NonEmptyString(vmatch.time)
    /\ IsBlank(vmatch.time.s)
    /\ IsAbsent(vmatch.homeScore)
    /\ vret = "false"

\* C3: a record classified as upcoming has neither homeScore nor awayScore
\* and a non-empty time string; a record classified as played has both
\* scores present and numeric.
C3_AsStated ==
    /\ (vcall = "isUpcomingMatch" /\ vret = "true") =>
            /\ IsAbsent(vmatch.homeScore)
            /\ IsAbsent(vmatch.awayScore)
            /\ NonEmptyString(vmatch.time)
    /\ (vcall = "isPlayedMatch" /\ vret = "true") =>
            /\ IsNumber(vmatch.homeScore)
            /\ IsNumber(vmatch.awayScore)

\* C4 as stated: validateMatch returns true exactly when homeTeam and
\* awayTeam are non-empty strings and a date is present (date is a required
\* string of Match, so a present date is a non-empty one).
C4_AsStated ==
    vcall = "validateMatch" =>
        (vret = "true" <=>
            /\ NonEmptyString(vmatch.homeTeam)
            /\ NonEmptyString(vmatch.awayTeam)
            /\ NonEmptyString(vmatch.date))

\* C4 amended: validateMatch returns true exactly when homeTeam and awayTeam
\* are strings that are non-empty after trimming whitespace and a date is
\* present (a non-empty string); otherwise it returns false.
C4_ValidateMatch ==
    vcall = "validateMatch" =>
        /\ vret \in {"true", "false"}
        /\ vret = "true" <=>
            /\ NonBlankString(vmatch.homeTeam)
            /\ NonBlankString(vmatch.awayTeam)
            /\ NonEmptyString(vmatch.date)

C4_Witness ==
    /\ vcall = "validateMatch"
    /\ NonEmptyString(vmatch.homeTeam)
    /\ IsBlank(vmatch.homeTeam.s)
    /\ NonBlankString(vmatch.awayTeam)
    /\ NonEmptyString(vmatch.date)
    /\ vret = "false"

\* C5: validateTeamName returns true exactly when its argument is a string
\* that is non-empty after trimming whitespace; null, undefined, "" and
\* whitespace-only strings give false, and the call never fails.
C5_ValidateTeamName ==
    vcall = "validateTeamName" =>
        /\ vret \in {"true", "false"}
        /\ vret = "true" <=> NonBlankString(vname)
        /\ vname \in {Null, Undefined, Str(<<>>)} => vret = "false"

C5_Witness ==
    /\ vcall = "validateTeamName"
    /\ NonEmptyString(vname)
    /\ IsBlank(vname.s)
    /\ vret = "false"

(***************************************************************************)
(* Properties of the suite-level network observer (checked under Spec).    *)
(***************************************************************************)
\* a record a response has been attributed to: the listener sets its status
Resolved(req) == req.status # Undefined
HeaderPresent(value) == value # Undefined

\* C6: a response event resolves the earliest record with the response's
\* url that has not yet been resolved: it gets the response's status and
\* responseTime = now - timestamp, and every other record is unchanged.
C6_AsStated ==
    [][\A url \in NetUrls, status \in Statuses, headers \in Headers :
        (responseOn /\ ResponseEvent(url, status, headers)) =>
            LET open == {k \in 1..Len(networkRequests) :
                            /\ networkRequests[k].url = url
                            /\ ~Resolved(networkRequests[k])}
            IN  open # {} =>
                    \E i \in open :
                        /\ \A j \in open : i <= j
                        /\ networkRequests'[i].status = Num(status)
                        /\ networkRequests'[i].responseTime
                                = Num(now - networkRequests[i].timestamp)
                        /\ \A j \in 1..Len(networkRequests) :
                                j # i => networkRequests'[j] = networkRequests[j]
      ]_vars

\* C7: a record is mutated by at most one response event: once resolved, no
\* later response event changes its status, responseTime or cached flag.
C7_AsStated ==
    [][\A url \in NetUrls, status \in Statuses, headers \in Headers :
        ResponseEvent(url, status, headers) =>
            \A k \in 1..Len(networkRequests) :
                Resolved(networkRequests[k]) =>
                    networkRequests'[k] = networkRequests[k]
      ]_vars

\* C8: when a response event resolves a record, its cached flag is true if
\* and only if the response carried a cache-control or an etag header.
C8_AsStated ==
    [][\A url \in NetUrls, status \in Statuses, headers \in Headers :
        (responseOn /\ ResponseEvent(url, status, headers)) =>
            \A k \in 1..Len(networkRequests) :
                networkRequests'[k] # networkRequests[k] =>
                    networkRequests'[k].cached
                        = Bool(HeaderPresent(headers.cacheControl)
                               \/ HeaderPresent(headers.etag))
      ]_vars

(***************************************************************************)
(* Properties of the request report: of the step that builds it, over the  *)
(* records as they are at that step.  Records that arrive after it are not *)
(* in the report.                                                          *)
(***************************************************************************)
RECURSIVE SumOver(_, _)
SumOver(map, keys) ==
    IF keys = {} THEN 0
    ELSE LET k == CHOOSE x \in keys : TRUE
         IN  map[k] + SumOver(map, keys \ {k})

MethodsRecorded == {allRequests[i].method : i \in 1..Len(allRequests)}
RecordedWithMethod(m) == {i \in 1..Len(allRequests) : allRequests[i].method = m}

\* C9: requestsByMethod holds, for each method, exactly the number of
\* recorded requests with that method; the per-method counts sum to
\* totalRequests, which is the number of requests recorded.
C9_MethodCounts ==
    [][GenerateReport =>
        /\ DOMAIN requestReport'.requestsByMethod = MethodsRecorded
        /\ \A m \in MethodsRecorded :
                requestReport'.requestsByMethod[m] = Cardinality(RecordedWithMethod(m))
        /\ SumOver(requestReport'.requestsByMethod,
                   DOMAIN requestReport'.requestsByMethod)
                = requestReport'.totalRequests
        /\ requestReport'.totalRequests = Len(allRequests)
      ]_vars

C9_Witness ==
    /\ phase = "reported"
    /\ Len(allRequests) = 3
    /\ DOMAIN requestReport.requestsByMethod = {"GET", "POST"}
    /\ requestReport.requestsByMethod["GET"] = 2
    /\ requestReport.requestsByMethod["POST"] = 1

ApiTest(url) ==
    includes(url, <<"a", "p", "i">>) \/ includes(url, <<"d", "a", "t", "a">>)
DataTest(url) ==
    includes(url, <<"m", "a", "t", "c", "h">>) \/ includes(url, <<"l", "i", "v", "e">>)
AssetsTest(url) ==
    \E ext \in {<<".", "j", "s">>, <<".", "c", "s", "s">>,
                <<".", "p", "n", "g">>, <<".", "j", "p", "g">>} : includes(url, ext)

Buckets == {"api", "data", "assets", "other"}

BucketAsStated(url) ==
    CASE ApiTest(url) -> "api"
      [] ~ApiTest(url) /\ DataTest(url) -> "data"
      [] ~ApiTest(url) /\ ~DataTest(url) /\ AssetsTest(url) -> "assets"
      [] OTHER -> "other"

BucketAmended(url) ==
    CASE ApiTest(url) -> "api"
      [] ~ApiTest(url) /\ AssetsTest(url) -> "assets"
      [] ~ApiTest(url) /\ ~AssetsTest(url) /\ DataTest(url) -> "data"
      [] OTHER -> "other"

\* C10 as stated: each recorded request is counted in exactly one bucket,
\* chosen by the tests in the order api, data, assets, other.
C10_AsStated ==
    [][GenerateReport =>
        \A b \in Buckets :
            requestReport'.requestsByType[b]
                = Cardinality({i \in 1..Len(allRequests) :
                                  BucketAsStated(allRequests[i].url) = b})
      ]_vars

\* C10 amended: each recorded request is counted in exactly one bucket,
\* chosen by the tests in the order api, assets, data, other (first match
\* wins); a URL that matches no test is counted as other.
C10_TypeCounts ==
    [][GenerateReport =>
        /\ \A b \in Buckets :
            requestReport'.requestsByType[b]
                = Cardinality({i \in 1..Len(allRequests) :
                                  BucketAmended(allRequests[i].url) = b})
        /\ SumOver(requestReport'.requestsByType, Buckets) = Len(allRequests)
      ]_vars

C10_Witness ==
    /\ phase = "reported"
    /\ \E i \in 1..Len(allRequests) : allRequests[i].url = UrlLiveScript
    /\ \E i \in 1..Len(allRequests) : allRequests[i].url = UrlPlain
    /\ requestReport.requestsByType.assets >= 1
    /\ requestReport.requestsByType.data = 0
    /\ requestReport.requestsByType.other >= 1

Parsable(url) == \E k \in 2..Len(url) :
                    /\ url[k] = ":"
                    /\ \A j \in 1..(k - 1) : url[j] \in Alpha
HostOf(url) ==
    IF includes(url, <<":", "/", "/">>)
    THEN LET start == (CHOOSE k \in 1..Len(url) :
                            SubSeq(url, k, k + 2) = <<":", "/", "/">>) + 3
             rest == SubSeq(url, start, Len(url))
         IN  IF \E k \in 1..Len(rest) : rest[k] = "/"
             THEN SubSeq(rest, 1, (CHOOSE k \in 1..Len(rest) :
                        rest[k] = "/" /\ \A j \in 1..(k - 1) : rest[j] # "/") - 1)
             ELSE rest
    ELSE <<>>
ParsableRecords == {i \in 1..Len(allRequests) : Parsable(allRequests[i].url)}
HostsRecorded == {HostOf(allRequests[i].url) : i \in ParsableRecords}

\* C11: a recorded request whose URL cannot be parsed is left out of
\* requestsByDomain, the aggregation goes on to the requests after it, and
\* the request is still counted in requestsByMethod, requestsByType and
\* totalRequests.
C11_UnparsableSkipped ==
    [][GenerateReport =>
        /\ DOMAIN requestReport'.requestsByDomain = HostsRecorded
        /\ \A h \in HostsRecorded :
                requestReport'.requestsByDomain[h]
                    = Cardinality({i \in ParsableRecords :
                                      HostOf(allRequests[i].url) = h})
        /\ requestReport'.totalRequests = Len(allRequests)
        /\ SumOver(requestReport'.requestsByMethod,
                   DOMAIN requestReport'.requestsByMethod) = Len(allRequests)
        /\ SumOver(requestReport'.requestsByType, Buckets) = Len(allRequests)
      ]_vars

C11_Witness ==
    /\ phase = "reported"
    /\ Len(allRequests) = 3
    /\ ~Parsable(allRequests[1].url)
    /\ Parsable(allRequests[2].url)
    /\ requestReport.totalRequests = 3
    /\ SumOver(requestReport.requestsByDomain,
               DOMAIN requestReport.requestsByDomain) = 2

ResolvedRecords == {i \in 1..Len(allRequests) : Resolved(allRequests[i])}
CodesRecorded == {allRequests[i].status.n : i \in ResolvedRecords}

\* C12: statusCodes counts only the records that received a matched
\* response: each code's count is the number of records resolved with that
\* code, an unresolved record adds to no count, and the counts sum to the
\* number of resolved records.
C12_StatusCounts ==
    [][GenerateReport =>
        /\ DOMAIN requestReport'.statusCodes = CodesRecorded
        /\ \A code \in CodesRecorded :
                requestReport'.statusCodes[code]
                    = Cardinality({i \in ResolvedRecords :
                                      allRequests[i].status.n = code})
        /\ SumOver(requestReport'.statusCodes, DOMAIN requestReport'.statusCodes)
                = Cardinality(ResolvedRecords)
      ]_vars

C12_Witness ==
    /\ phase = "reported"
    /\ Len(allRequests) = 3
    /\ Cardinality(ResolvedRecords) = 2
    /\ DOMAIN requestReport.statusCodes = {200, 404}
    /\ requestReport.statusCodes[200] = 1
    /\ requestReport.statusCodes[404] = 1

(***************************************************************************)
(* Properties of the match-element location (checked under SpecDom).       *)
(***************************************************************************)
Yielding == {k \in 1..Len(alternatives) : Len(querySelectorAll(dom, alternatives[k])) > 0}
FirstYielding == CHOOSE k \in Yielding : \A j \in Yielding : k <= j
SelectorOrder == <<matchItem>> \o alternatives

\* C13: the primary selector is used whenever it yields at least one element,
\* and then no fallback selector is consulted; otherwise the result is that of
\* the first fallback selector, in the fixed order of the five alternatives,
\* that yields at least one element, the selectors before it having been
\* consulted in order; when no selector yields anything the result is the
\* empty sequence.  In the structure test all the selectors are applied to
\* one document; in the list test each selector yields what the page holds
\* when it is queried: a selector is queried only when every selector before
\* it has yielded nothing, the result is what the last queried selector
\* yielded, and the lookup ends at the first selector that yields an element
\* or after the last alternative.
C13_Fallback ==
    [][/\ (locatedBy = "none" /\ locatedBy' = "structure") =>
            LET primary == querySelectorAll(dom, matchItem)
            IN  /\ Len(primary) > 0 =>
                    matchElements' = primary /\ queried' = <<matchItem>>
                /\ Len(primary) = 0 /\ Yielding # {} =>
                    /\ matchElements' = querySelectorAll(dom, alternatives[FirstYielding])
                    /\ queried' = SubSeq(SelectorOrder, 1, 1 + FirstYielding)
                /\ Len(primary) = 0 /\ Yielding = {} =>
                    /\ matchElements' = <<>>
                    /\ queried' = SelectorOrder
       /\ (locatedBy' \in {"list", "listDone"} /\ queried' # queried) =>
            /\ matchElements = <<>>
            /\ queried' = SubSeq(SelectorOrder, 1, Len(queried) + 1)
            /\ matchElements' = querySelectorAll(dom, queried'[Len(queried')])
            /\ (locatedBy' = "listDone") <=>
                    (Len(matchElements') > 0 \/ queried' = SelectorOrder)
       /\ locatedBy = "listDone" =>
            matchElements' = matchElements /\ queried' = queried
      ]_vars

\* the list test found nothing with the primary selector, the page changed,
\* and the first alternative yielded the element
C13_Witness ==
    /\ locatedBy = "listDone"
    /\ queried = SubSeq(SelectorOrder, 1, 2)
    /\ Len(matchElements) = 1
    /\ Len(querySelectorAll(dom, matchItem)) = 1

(***************************************************************************)
(* Properties of the suite lifecycle (checked under Spec).                 *)
(***************************************************************************)
\* C14 as stated: the record sequence the listeners append to belongs to one
\* test only and goes with it, so between two tests there is no record of a
\* finished test.
C14_AsStated == phase = "idle" => networkRequests = <<>>

\* the pages that were opened for an earlier test than the running one
EarlierPages == {p \in 1..MaxTests : p < testsRun}

\* C14: networkRequests is one sequence shared by all the tests; it keeps the
\* records of a test when the test ends, until the next beforeEach empties
\* it.  It holds no record created during an earlier test when a test body
\* starts, and no listener attached for an earlier test's page ever appends
\* to or mutates the records a later test sees: during a test every record
\* was pushed by the listener of that test's page, no page of an earlier test
\* is open, and the records change only through an event of the one open
\* page or through beforeEach.
C14_ClearedPerTest ==
    [][/\ (phase # "idle" /\ phase' = "idle") =>
            networkRequests' = networkRequests /\ createdBy' = createdBy
       /\ (phase = "idle" /\ phase' # "idle") =>
            networkRequests' = <<>> /\ cleared' = Len(networkRequests)
       /\ Len(createdBy') = Len(networkRequests')
       /\ phase' # "idle" =>
            \A i \in 1..Len(createdBy') : createdBy'[i] = testsRun'
       /\ openPages' \cap {p \in 1..MaxTests : p < testsRun'} = {}
       /\ (networkRequests' # networkRequests /\ phase # "idle") =>
            openPages = {testsRun}
       /\ phase = "idle" => openPages = {}
      ]_vars

\* the second test has pushed a record of its own onto the sequence from
\* which beforeEach dropped the two records the first test had left
C14_Witness ==
    /\ testsRun = 2
    /\ phase = "test"
    /\ cleared = 2
    /\ Len(networkRequests) = 1
    /\ createdBy = <<2>>
    /\ openPages = {2}
    /\ EarlierPages = {1}

(***************************************************************************)
(* Properties of the "Goal sorting" test (checked under SpecStats).        *)
(***************************************************************************)
OutOfOrder(goals) == \E i \in 1..(Len(goals) - 1) : goals[i] < goals[i + 1]

\* C15 as stated: whenever the stats page yields two or more goal-scorer
\* entries and some entry has fewer goals than the entry after it, the test
\* fails.
C15_AsStated ==
    /\ testResult # "none"
    /\ statsRun.baseLoads
    /\ statsRun.matchLinks > 0
    /\ statsRun.statsLoads
    /\ Len(statsRun.goalScorers) >= 2
    /\ OutOfOrder(statsRun.goalScorers)
    => testResult = "failed"

(***************************************************************************)
(* Properties of the observer under the page's traffic (SpecLive).         *)
(***************************************************************************)
\* the earliest record with this url that the beforeEach listener takes for
\* not yet answered, 0 when there is none
EarliestOpen(url) ==
    find({k \in 1..Len(networkRequests) :
             /\ networkRequests[k].url = url
             /\ ~Truthy(networkRequests[k].responseTime)})

\* C16: when two requests with the same url are both in flight and the
\* response of the second arrives first, the listener attributes it to the
\* first record: the first record gets the status, the response time (taken
\* from its own timestamp) and the cache flag of the second request's
\* response, and the second record stays as it was.
C16_Misattributed ==
    [][\A j \in 1..MaxReq, status \in Statuses, headers \in LiveHeaders :
        (responseOn /\ LiveResponse(j, status, headers)) =>
            LET i == EarliestOpen(networkRequests[j].url)
            IN  (i # 0 /\ i < j /\ i \in inFlight
                 /\ ~Resolved(networkRequests[i])) =>
                    /\ networkRequests'[i].status = Num(status)
                    /\ networkRequests'[i].responseTime
                            = Num(now - networkRequests[i].timestamp)
                    /\ networkRequests'[i].cached
                            = Bool(Truthy(Or(headers.cacheControl, headers.etag)))
                    /\ networkRequests'[j] = networkRequests[j]
                    /\ i \in inFlight'
      ]_vars

\* the second request has been answered and the first has not, yet the first
\* record carries the response and the second record none
C16_Witness ==
    /\ Len(networkRequests) = 2
    /\ networkRequests[1].url = networkRequests[2].url
    /\ networkRequests[1].timestamp = 0
    /\ networkRequests[2].timestamp = 1
    /\ inFlight = {1}
    /\ networkRequests[1].status = Num(404)
    /\ networkRequests[1].responseTime = Num(1)
    /\ networkRequests[1].cached = Bool(TRUE)
    /\ ~Resolved(networkRequests[2])

(***************************************************************************)
(* A response that matches no record (checked under Spec).                 *)
(***************************************************************************)
Unresolved(reqs, url) ==
    {k \in 1..Len(reqs) : reqs[k].url = url /\ ~Resolved(reqs[k])}

\* C17 as stated: a response event for which no unresolved record with the
\* same url exists is ignored: no record is added, removed or reordered and
\* every field of every record is unchanged.
C17_AsStated ==
    [][\A url \in NetUrls, status \in Statuses, headers \in Headers :
        ResponseEvent(url, status, headers) =>
            /\ (responseOn /\ Unresolved(networkRequests, url) = {}) =>
                    networkRequests' = networkRequests
            /\ (reportOn /\ Unresolved(allRequests, url) = {}) =>
                    allRequests' = allRequests
      ]_vars

====
